---- MODULE Spec2Model ----
(***************************************************************************)
(* AdvancedAnomalyDetector (advanced_anomaly_detector.py): the bounded     *)
(* history of process snapshots, autoencoder training, anomaly detection   *)
(* and reason attribution, as a state machine over the detector's fields.  *)
(*                                                                         *)
(* Numeric abstractions, used throughout:                                  *)
(*  - a fitted StandardScaler is kept as the row count and column sums of  *)
(*    the corpus it was fit on; transform yields, per feature, the sign of *)
(*    x - mean (the standardised value quantised to -1, 0, 1);             *)
(*  - the autoencoder's weights are a gain g and a bias b, drawn           *)
(*    nondeterministically at build (random initialisation) and at fit;    *)
(*    predict reconstructs z as g*z + b;                                   *)
(*  - a reconstruction error is the SUM of the five squared differences    *)
(*    (five times numpy's mean), and a threshold is kept in hundredths of  *)
(*    that unit, so err > threshold reads 100 * err > threshold.           *)
(* An exception raised by a statement leaves that statement without effect.*)
(***************************************************************************)
EXTENDS Integers, Sequences, FiniteSets, TLC

\* ------------------------------------------------------------------ bounds
MaxHistorySize == 2   \* history_size ranges over 1..MaxHistorySize
MaxSnapshot    == 1   \* processes in one snapshot of the history
MaxProcs       == 2   \* processes in one detect_anomalies input
MaxAppends     == 3   \* update_history calls in one run
MaxTrainCalls  == 2   \* train_model calls in one run that pass the size check

\* ------------------------------------------------------- process records
FeatureKeys == <<"cpu_percent", "memory_percent", "num_threads",
                 "num_connections", "num_files">>

FeatureKeySet == {FeatureKeys[j] : j \in 1..Len(FeatureKeys)}

MkProc(pid, cpu, mem, thr, con, fil) ==
    [pid |-> pid, name |-> "proc", cpu_percent |-> cpu, memory_percent |-> mem,
     num_threads |-> thr, num_connections |-> con, num_files |-> fil]

\* What collect_process_metrics can build for the process with this pid:
\* every key is always set (the `or 0` defaults and the two try/except
\* blocks). A quiet process and a busy one.
CollectedProcs(pid) == {MkProc(pid, 5, 5, 2, 1, 3), MkProc(pid, 95, 10, 2, 1, 3)}

\* A record a caller of the class can hand in: a collected one, or one with a
\* measurement key absent.
DropKey(p, k) == [f \in (DOMAIN p) \ {k} |-> p[f]]

CallerProcs(pid) ==
    CollectedProcs(pid) \cup {DropKey(MkProc(pid, 95, 10, 2, 1, 3), "num_files")}

\* The lists of at most n records, the i-th the record of pid i, drawn from P(i).
RECURSIVE ListsUpTo(_, _)
ListsUpTo(P(_), n) ==
    IF n = 0 THEN {<<>>}
    ELSE LET shorter == ListsUpTo(P, n - 1)
         IN  shorter \cup {Append(s, x) : s \in {t \in shorter : Len(t) = n - 1}, x \in P(n)}

\* collect_process_metrics, as update_history calls it and as a caller does
\* before detect_anomalies.
collect_process_metrics(most) == ListsUpTo(CollectedProcs, most)

Snapshots == collect_process_metrics(MaxSnapshot)

Inputs == collect_process_metrics(MaxProcs)

\* The lists a caller can hand to detect_anomalies that hold a record with a
\* key absent, and the snapshots a caller can put into process_history.
CallerInputs == ListsUpTo(CallerProcs, MaxProcs) \ Inputs

CallerSnapshots == ListsUpTo(CallerProcs, MaxSnapshot)

\* The records get_anomaly_reason is tried on: each measurement below, at and
\* just over the limit of its rule.
ReasonProcs ==
    {MkProc(1, cpu, mem, thr, con, fil) :
        cpu \in {0, 80, 81}, mem \in {0, 80, 81}, thr \in {0, 100, 101},
        con \in {0, 50, 51}, fil \in {0, 100, 101}}

HasAllFields(proc) == FeatureKeySet \subseteq DOMAIN proc

\* The five-element row built from one record (lines 74-80 and 123-129).
Features(proc) == [j \in 1..Len(FeatureKeys) |-> proc[FeatureKeys[j]]]

\* ------------------------------------------------------------ the history
\* collections.deque(maxlen=...).append: at capacity the leftmost element is
\* discarded and the new one goes last.
list_append(q, x, maxlen) == Append(q, x)

deque_append(q, x, maxlen) ==
    IF maxlen = 0 THEN q
    ELSE IF Len(q) >= maxlen THEN Append(Tail(q), x)
    ELSE Append(q, x)

SnapshotRows(metrics) == [i \in 1..Len(metrics) |-> Features(metrics[i])]

RECURSIVE Flatten(_)
Flatten(history) ==
    IF history = <<>> THEN <<>>
    ELSE SnapshotRows(Head(history)) \o Flatten(Tail(history))

\* proc['...'] on a record without that key raises KeyError.
RaisesKeyError(procs) == \E i \in 1..Len(procs) : ~HasAllFields(procs[i])

HistoryRaisesKeyError(history) ==
    \E s \in 1..Len(history) : RaisesKeyError(history[s])

\* prepare_training_data: None for an empty history, else the matrix of rows.
prepare_training_data(history) ==
    IF history = <<>> THEN [isNone |-> TRUE, rows |-> <<>>]
    ELSE [isNone |-> FALSE, rows |-> Flatten(history)]

InsufficientData_NoneOnly(data, size) == data.isNone \/ data.rows = <<>>

\* The guard of train_model: data is None or len(data) < self.history_size.
InsufficientData(data, size) == data.isNone \/ Len(data.rows) < size

\* ------------------------------------------------------------- the scaler
Dims == 1..Len(FeatureKeys)

ZeroRow == [j \in Dims |-> 0]

UnfittedScaler == [fitted |-> FALSE, n |-> 0, sum |-> ZeroRow]

RECURSIVE ColumnSum(_, _)
ColumnSum(rows, j) ==
    IF rows = <<>> THEN 0 ELSE Head(rows)[j] + ColumnSum(Tail(rows), j)

scaler_fit(rows) ==
    [fitted |-> TRUE, n |-> Len(rows), sum |-> [j \in Dims |-> ColumnSum(rows, j)]]

Sign(v) == IF v > 0 THEN 1 ELSE IF v < 0 THEN -1 ELSE 0

\* One standardised value: feature j of a row, x, against the fitted mean.
scaler_transform(sc, x, j) == Sign(sc.n * x - sc.sum[j])

\* -------------------------------------------------------- the autoencoder
Weights == [g : {0, 1}, b : {0, 1}]

NoModel == [exists |-> FALSE, fitted |-> FALSE, g |-> 0, b |-> 0]

build_autoencoder(w) == [exists |-> TRUE, fitted |-> FALSE, g |-> w.g, b |-> w.b]

autoencoder_fit(model, w) == [model EXCEPT !.fitted = TRUE, !.g = w.g, !.b = w.b]

\* The reconstruction of one standardised value z.
autoencoder_predict(model, z) == model.g * z + model.b

Square(v) == v * v

\* One row's np.mean(np.square(scaled_data - reconstructed), axis=1), times
\* five: the row is standardised, reconstructed, and the squares are summed
\* from feature j on.
RECURSIVE RowError(_, _, _, _)
RowError(sc, model, row, j) ==
    IF j > Len(row) THEN 0
    ELSE LET z == scaler_transform(sc, row[j], j)
         IN  Square(z - autoencoder_predict(model, z)) + RowError(sc, model, row, j + 1)

reconstruction_error(sc, model, rows) ==
    [i \in 1..Len(rows) |-> RowError(sc, model, rows[i], 1)]

\* The k-th value (from 0) of errs in ascending order.
SortedAt(errs, k) ==
    CHOOSE v \in {errs[i] : i \in 1..Len(errs)} :
        /\ Cardinality({i \in 1..Len(errs) : errs[i] < v}) <= k
        /\ Cardinality({i \in 1..Len(errs) : errs[i] <= v}) >= k + 1

\* np.percentile(errs, 95) with numpy's linear interpolation, in hundredths.
percentile95(errs) ==
    LET pos == 95 * (Len(errs) - 1)
        lo  == pos \div 100
        hi  == IF lo + 1 <= Len(errs) - 1 THEN lo + 1 ELSE lo
    IN  100 * SortedAt(errs, lo) + (pos % 100) * (SortedAt(errs, hi) - SortedAt(errs, lo))

NoThreshold == -1   \* reconstruction_threshold = None

\* ------------------------------------------------------------ train_model
\* The statements of the try block, each as a function of the detector's
\* fields d = [scaler, autoencoder, reconstruction_threshold, is_trained].
StepScaler(d, rows) == [d EXCEPT !.scaler = scaler_fit(rows)]

StepBuild(d, w0) == [d EXCEPT !.autoencoder = build_autoencoder(w0)]

StepFit(d, w1) == [d EXCEPT !.autoencoder = autoencoder_fit(d.autoencoder, w1)]

StepThreshold(d, rows) ==
    [d EXCEPT !.reconstruction_threshold = percentile95(reconstruction_error(d.scaler, d.autoencoder, rows))]

StepTrained(d) == [d EXCEPT !.is_trained = TRUE]

\* Where the try block can raise; "none" is a run to the return True.
FaultPoints == {"none", "scaler", "build", "fit", "predict", "percentile"}

\* Where it can raise on this matrix: fit_transform refuses one without rows.
FaultsOn(rows) == IF rows = <<>> THEN {"scaler"} ELSE FaultPoints

\* The weights that matter to a run raising at `fault`: the initial ones only
\* while fit has not replaced them, the fitted ones only once fit has run.
InitialWeights(fault) ==
    IF fault = "fit" THEN Weights ELSE {[g |-> 0, b |-> 0]}

FittedWeights(fault) ==
    IF fault \in {"predict", "percentile", "none"} THEN Weights ELSE {[g |-> 0, b |-> 0]}

TrainBody_ClearsFlag(d, rows, fault, w0, w1) ==
    LET d0 == [d EXCEPT !.is_trained = FALSE]
        d1 == StepScaler(d0, rows)
        d2 == StepBuild(d1, w0)
        d3 == StepFit(d2, w1)
        d4 == StepThreshold(d3, rows)
    IN  CASE fault = "scaler"     -> d0
          [] fault = "build"      -> d1
          [] fault = "fit"        -> d2
          [] fault = "predict"    -> d3
          [] fault = "percentile" -> d3
          [] OTHER                -> StepTrained(d4)

\* The fields after the try block ran on `rows` and raised at `fault`.
TrainBody(d, rows, fault, w0, w1) ==
    LET d1 == StepScaler(d, rows)
        d2 == StepBuild(d1, w0)
        d3 == StepFit(d2, w1)
        d4 == StepThreshold(d3, rows)
    IN  CASE fault = "scaler"     -> d
          [] fault = "build"      -> d1
          [] fault = "fit"        -> d2
          [] fault = "predict"    -> d3
          [] fault = "percentile" -> d3
          [] OTHER                -> StepTrained(d4)

\* ------------------------------------------------------ get_anomaly_reason
RECURSIVE JoinComma(_)
JoinComma(reasons) ==
    IF Len(reasons) = 1 THEN reasons[1]
    ELSE reasons[1] \o ", " \o JoinComma(Tail(reasons))

get_anomaly_reason_AtLimit(process) ==
    LET r1 == IF process.cpu_percent >= 80 THEN <<"High CPU usage">> ELSE <<>>
        r2 == r1 \o (IF process.memory_percent > 80 THEN <<"High memory usage">> ELSE <<>>)
        r3 == r2 \o (IF process.num_connections > 50 THEN <<"Unusual network activity">> ELSE <<>>)
        r4 == r3 \o (IF process.num_threads > 100 THEN <<"High thread count">> ELSE <<>>)
        reasons == r4 \o (IF process.num_files > 100 THEN <<"Many open files">> ELSE <<>>)
    IN  IF reasons # <<>> THEN JoinComma(reasons) ELSE "Unusual behavior pattern"

get_anomaly_reason(process) ==
    LET r1 == IF process.cpu_percent > 80 THEN <<"High CPU usage">> ELSE <<>>
        r2 == r1 \o (IF process.memory_percent > 80 THEN <<"High memory usage">> ELSE <<>>)
        r3 == r2 \o (IF process.num_connections > 50 THEN <<"Unusual network activity">> ELSE <<>>)
        r4 == r3 \o (IF process.num_threads > 100 THEN <<"High thread count">> ELSE <<>>)
        reasons == r4 \o (IF process.num_files > 100 THEN <<"Many open files">> ELSE <<>>)
    IN  IF reasons # <<>> THEN JoinComma(reasons) ELSE "Unusual behavior pattern"

\* ------------------------------------------------------- detect_anomalies
\* The guard at the top: not self.is_trained or self.autoencoder is None.
NotTrained_ModelOnly(d) == ~d.autoencoder.exists

NotTrained(d) == ~d.is_trained \/ ~d.autoencoder.exists

Exceeds_OrEqual(err, threshold) == 100 * err >= threshold

\* err > self.reconstruction_threshold.
Exceeds(err, threshold) == 100 * err > threshold

Annotate_Replace(proc, reason) == [pid |-> proc.pid, anomaly_reason |-> reason]

\* processes[i]['anomaly_reason'] = reason.
Annotate(proc, reason) ==
    [k \in DOMAIN proc \cup {"anomaly_reason"} |->
        IF k = "anomaly_reason" THEN reason ELSE proc[k]]

\* The input list after the loop: flagged records carry their reason.
AnnotateFlagged(processes, errs, threshold) ==
    [i \in 1..Len(processes) |->
        IF Exceeds(errs[i], threshold)
        THEN Annotate(processes[i], get_anomaly_reason(processes[i]))
        ELSE processes[i]]

RECURSIVE CollectFlagged(_, _, _, _)
CollectFlagged(processes, errs, threshold, i) ==
    IF i > Len(processes) THEN <<>>
    ELSE (IF Exceeds(errs[i], threshold) THEN <<processes[i]>> ELSE <<>>)
         \o CollectFlagged(processes, errs, threshold, i + 1)

\* The try block of detect_anomalies, given the scaler, model and threshold it
\* reads: the returned list and the input list as the call leaves it. A
\* KeyError of the extraction loop, or the scaler refusing an empty list, is
\* caught and gives [] before any record is annotated.
DetectBody(sc, model, threshold, processes) ==
    IF RaisesKeyError(processes) \/ processes = <<>>
    THEN [anomalies |-> <<>>, processes |-> processes, scored |-> FALSE]
    ELSE LET errs  == reconstruction_error(sc, model, SnapshotRows(processes))
             after == AnnotateFlagged(processes, errs, threshold)
         IN  [anomalies |-> CollectFlagged(after, errs, threshold, 1),
              processes |-> after, scored |-> TRUE]

detect_anomalies(d, processes) ==
    IF NotTrained(d)
    THEN [anomalies |-> <<>>, processes |-> processes, scored |-> FALSE]
    ELSE DetectBody(d.scaler, d.autoencoder, d.reconstruction_threshold, processes)

\* -------------------------------------------------------- generate_report
generate_report(history, anomalies) ==
    [total_processes |-> IF history # <<>> THEN Len(history[Len(history)]) ELSE 0,
     anomaly_count   |-> Len(anomalies),
     anomalies       |-> [i \in 1..Len(anomalies) |->
                            [pid |-> anomalies[i].pid, name |-> anomalies[i].name,
                             reason |-> anomalies[i].anomaly_reason,
                             cpu_percent |-> anomalies[i].cpu_percent,
                             memory_percent |-> anomalies[i].memory_percent,
                             connections |-> anomalies[i].num_connections]]]

\* ================================================================== state
VARIABLES
    history_size,              \* self.history_size
    process_history,           \* self.process_history, oldest snapshot first
    scaler,                    \* self.scaler
    autoencoder,               \* self.autoencoder
    is_trained,                \* self.is_trained
    reconstruction_threshold,  \* self.reconstruction_threshold
    op,          \* the call that ended last
    outcome,     \* how the last train_model ended: "insufficient", a fault point, "none"
    retBool,     \* what the last train_model returned
    anomalies,   \* what the last detect_anomalies returned
    report,      \* what the last generate_report returned
    reason,      \* what the last get_anomaly_reason returned
    raised,      \* the exception the last call let through to its caller
    arg,         \* the list handed to the last detect_anomalies, as handed in
    processes,   \* that same list as the call left it
    again,       \* the last detect_anomalies was handed the list of the one before
    scored,      \* the last detect_anomalies compared errors with the threshold
    arrivals,    \* the deque again, each snapshot paired with its number of arrival
    nAppends,    \* update_history calls so far
    trainCalls,  \* train_model calls so far that passed the size check
    madeBy,      \* which of those calls set scaler, autoencoder and threshold
    completed,   \* the calls among them that returned True
    used,        \* madeBy as read by the last detect_anomalies that scored
    train_pc,    \* a stepwise train_model: the statement it is about to run
    train_rows,  \* its local `data`
    detect_pc,   \* a stepwise detect_anomalies: the statement it is about to run
    detect_loc,  \* its locals: the scaler as transform read it, reconstruction_error
    ui           \* the monitor window: what the last click called, its status label

detectorVars == <<scaler, autoencoder, is_trained, reconstruction_threshold>>

historyVars == <<history_size, process_history, arrivals, nAppends>>

callVars == <<op, outcome, retBool, anomalies, report, reason, raised, arg, processes,
              again, scored>>

ghostVars == <<trainCalls, madeBy, completed, used>>

stepVars == <<train_pc, train_rows, detect_pc, detect_loc>>

vars == <<detectorVars, historyVars, callVars, ghostVars, stepVars, ui>>

Det ==
    [scaler |-> scaler, autoencoder |-> autoencoder,
     reconstruction_threshold |-> reconstruction_threshold, is_trained |-> is_trained]

NoReport == [total_processes |-> 0, anomaly_count |-> 0, anomalies |-> <<>>]

NoOne == [scaler |-> 0, model |-> 0, threshold |-> 0]

NoLocals == [sc |-> UnfittedScaler, errs |-> <<>>]

\* The window before any click on "Detect Anomalies".
NoClick == [calls |-> <<>>, status |-> ""]

\* What a call records: everything but the fields named is reset.
Returns(o, out, b, an, rep, rsn, exc) ==
    /\ op' = o
    /\ outcome' = out
    /\ retBool' = b
    /\ anomalies' = an
    /\ report' = rep
    /\ reason' = rsn
    /\ raised' = exc

\* A call other than detect_anomalies forgets what the last one was handed,
\* unless a stepwise detect_anomalies is still running on it.
NoDetect ==
    IF detect_pc = "idle"
    THEN /\ arg' = <<>>
         /\ processes' = <<>>
         /\ again' = FALSE
         /\ scored' = FALSE
         /\ used' = NoOne
    ELSE UNCHANGED <<arg, processes, again, scored, used>>

\* __init__: empty deque of the given capacity, fresh scaler, no model; the
\* window that owns the detector has not been clicked.
Constructed ==
    /\ history_size \in 1..MaxHistorySize
    /\ scaler = UnfittedScaler
    /\ autoencoder = NoModel
    /\ is_trained = FALSE
    /\ reconstruction_threshold = NoThreshold
    /\ op = "init" /\ outcome = "none" /\ retBool = FALSE /\ anomalies = <<>>
    /\ report = NoReport /\ reason = "" /\ raised = "none"
    /\ processes = <<>> /\ again = FALSE /\ scored = FALSE
    /\ trainCalls = 0 /\ madeBy = NoOne /\ completed = {} /\ used = NoOne
    /\ train_pc = "idle" /\ train_rows = <<>>
    /\ detect_pc = "idle" /\ detect_loc = NoLocals
    /\ ui = NoClick

EmptyHistory ==
    /\ process_history = <<>>
    /\ arrivals = <<>>
    /\ nAppends = 0

Init ==
    /\ Constructed
    /\ EmptyHistory
    /\ arg = <<>>

\* ---------------------------------------------------------------- actions
\* update_history: one snapshot from collect_process_metrics is appended.
UpdateHistory ==
    /\ nAppends < MaxAppends
    /\ \E metrics \in Snapshots :
          /\ process_history' = deque_append(process_history, metrics, history_size)
          /\ arrivals' = deque_append(arrivals, <<nAppends + 1, metrics>>, history_size)
    /\ nAppends' = nAppends + 1
    /\ Returns("update", "none", FALSE, <<>>, NoReport, "", "none")
    /\ NoDetect
    /\ UNCHANGED <<history_size, detectorVars, trainCalls, madeBy, completed, stepVars, ui>>

\* Who set what after call `id` ran its try block and raised at `fault`.
MadeByAfter(by, id, fault) ==
    [scaler    |-> IF fault = "scaler" THEN by.scaler ELSE id,
     model     |-> IF fault \in {"scaler", "build"} THEN by.model ELSE id,
     threshold |-> IF fault = "none" THEN id ELSE by.threshold]

\* train_model, from the call to its return.
TrainModel ==
    /\ NoDetect
    /\ UNCHANGED <<historyVars, stepVars, ui>>
    /\ IF HistoryRaisesKeyError(process_history)
       THEN /\ Returns("train", "KeyError", FALSE, <<>>, NoReport, "", "KeyError")
            /\ UNCHANGED <<detectorVars, trainCalls, madeBy, completed>>
       ELSE LET data == prepare_training_data(process_history)
            IN  IF InsufficientData(data, history_size)
                THEN /\ Returns("train", "insufficient", FALSE, <<>>, NoReport, "", "none")
                     /\ UNCHANGED <<detectorVars, trainCalls, madeBy, completed>>
                ELSE /\ trainCalls < MaxTrainCalls
                     /\ \E fault \in FaultsOn(data.rows) :
                        \E w0 \in InitialWeights(fault), w1 \in FittedWeights(fault) :
                          \E d \in {TrainBody(Det, data.rows, fault, w0, w1)} :
                              /\ scaler' = d.scaler
                              /\ autoencoder' = d.autoencoder
                              /\ reconstruction_threshold' = d.reconstruction_threshold
                              /\ is_trained' = d.is_trained
                              /\ Returns("train", fault, fault = "none", <<>>, NoReport, "", "none")
                              /\ madeBy' = MadeByAfter(madeBy, trainCalls + 1, fault)
                              /\ completed' = IF fault = "none"
                                              THEN completed \cup {trainCalls + 1}
                                              ELSE completed
                     /\ trainCalls' = trainCalls + 1

\* detect_anomalies(input), from the call to its return.
Detect(input, same) ==
    \E r \in {detect_anomalies(Det, input)} :
        /\ Returns("detect", "none", FALSE, r.anomalies, NoReport, "", "none")
        /\ arg' = input
        /\ processes' = r.processes
        /\ again' = same
        /\ scored' = r.scored
        /\ used' = IF r.scored THEN madeBy ELSE NoOne
        /\ UNCHANGED <<detectorVars, historyVars, stepVars, trainCalls, madeBy, completed, ui>>

\* The caller hands in what collect_process_metrics returned.
DetectAnomalies == \E input \in Inputs : Detect(input, FALSE)

\* The caller hands in the list of the previous detect_anomalies call again.
DetectAgain ==
    /\ op = "detect"
    /\ Detect(processes, TRUE)

\* generate_report on the list the last detect_anomalies returned.
GenerateReport ==
    /\ op = "detect"
    /\ Returns("report", "none", FALSE, <<>>, generate_report(process_history, anomalies),
               "", "none")
    /\ NoDetect
    /\ UNCHANGED <<detectorVars, historyVars, trainCalls, madeBy, completed, stepVars, ui>>

Next ==
    \/ UpdateHistory
    \/ TrainModel
    \/ DetectAnomalies
    \/ DetectAgain
    \/ GenerateReport

Spec == Init /\ [][Next]_vars

\* ------------------------------------------------- the class, any caller
\* A caller can fill process_history itself and hand detect_anomalies any
\* list: records with a measurement key absent included.
RECURSIVE SeqsUpTo(_, _)
SeqsUpTo(S, n) ==
    IF n = 0 THEN {<<>>}
    ELSE LET shorter == SeqsUpTo(S, n - 1)
         IN  shorter \cup {Append(s, x) : s \in {t \in shorter : Len(t) = n - 1}, x \in S}

InitOpen ==
    /\ Constructed
    /\ arg = <<>>
    /\ process_history \in SeqsUpTo(CallerSnapshots, MaxHistorySize)
    /\ Len(process_history) <= history_size
    /\ arrivals = [i \in 1..Len(process_history) |-> <<i, process_history[i]>>]
    /\ nAppends = Len(process_history)

DetectCaller == \E input \in CallerInputs : Detect(input, FALSE)

NextOpen ==
    \/ UpdateHistory
    \/ TrainModel
    \/ DetectAnomalies
    \/ DetectCaller
    \/ DetectAgain
    \/ GenerateReport

SpecOpen == InitOpen /\ [][NextOpen]_vars

\* ---------------------------------------------- get_anomaly_reason alone
InitReason ==
    /\ Constructed
    /\ EmptyHistory
    /\ arg \in {<<p>> : p \in ReasonProcs}

GetAnomalyReason ==
    /\ Returns("reason", "none", FALSE, <<>>, NoReport, get_anomaly_reason(arg[1]), "none")
    /\ UNCHANGED <<detectorVars, historyVars, ghostVars, stepVars, arg, processes, again, scored,
                   ui>>

NextReason == GetAnomalyReason

SpecReason == InitReason /\ [][NextReason]_vars

\* ------------------------------- train_model and detect_anomalies in steps
\* One train_model call and one detect_anomalies call, each running statement
\* by statement, the statements of the two interleaved in any order.
TrainCall ==
    /\ train_pc = "idle"
    /\ LET data == prepare_training_data(process_history)
       IN  IF InsufficientData(data, history_size)
           THEN /\ Returns("train", "insufficient", FALSE, anomalies, NoReport, "", "none")
                /\ UNCHANGED <<train_pc, train_rows, trainCalls>>
           ELSE /\ trainCalls < MaxTrainCalls
                /\ train_pc' = "scaler"
                /\ train_rows' = data.rows
                /\ trainCalls' = trainCalls + 1
                /\ UNCHANGED <<op, outcome, retBool, anomalies, report, reason, raised>>
    /\ UNCHANGED <<detectorVars, historyVars, madeBy, completed, used, detect_pc, detect_loc,
                   arg, processes, again, scored, ui>>

TrainKeeps ==
    UNCHANGED <<historyVars, callVars, trainCalls, completed, used, train_rows,
                detect_pc, detect_loc, ui>>

\* scaled_data = self.scaler.fit_transform(data)
TrainScaler ==
    /\ train_pc = "scaler"
    /\ scaler' = StepScaler(Det, train_rows).scaler
    /\ madeBy' = [madeBy EXCEPT !.scaler = trainCalls]
    /\ train_pc' = "build"
    /\ UNCHANGED <<autoencoder, is_trained, reconstruction_threshold>>
    /\ TrainKeeps

\* self.autoencoder = self.build_autoencoder(input_dim)
TrainBuild ==
    /\ train_pc = "build"
    /\ \E w0 \in Weights : autoencoder' = StepBuild(Det, w0).autoencoder
    /\ madeBy' = [madeBy EXCEPT !.model = trainCalls]
    /\ train_pc' = "fit"
    /\ UNCHANGED <<scaler, is_trained, reconstruction_threshold>>
    /\ TrainKeeps

\* self.autoencoder.fit(...)
TrainFit ==
    /\ train_pc = "fit"
    /\ \E w1 \in Weights : autoencoder' = StepFit(Det, w1).autoencoder
    /\ train_pc' = "predict"
    /\ UNCHANGED <<scaler, is_trained, reconstruction_threshold, madeBy>>
    /\ TrainKeeps

\* reconstructed = self.autoencoder.predict(scaled_data), and the errors.
TrainPredict ==
    /\ train_pc = "predict"
    /\ train_pc' = "percentile"
    /\ UNCHANGED <<detectorVars, madeBy>>
    /\ TrainKeeps

\* self.reconstruction_threshold = np.percentile(reconstruction_error, 95)
TrainPercentile ==
    /\ train_pc = "percentile"
    /\ reconstruction_threshold' = StepThreshold(Det, train_rows).reconstruction_threshold
    /\ madeBy' = [madeBy EXCEPT !.threshold = trainCalls]
    /\ train_pc' = "finish"
    /\ UNCHANGED <<scaler, autoencoder, is_trained>>
    /\ TrainKeeps

\* self.is_trained = True; return True
TrainFinish ==
    /\ train_pc = "finish"
    /\ is_trained' = StepTrained(Det).is_trained
    /\ completed' = completed \cup {trainCalls}
    /\ train_pc' = "idle"
    /\ train_rows' = <<>>
    /\ Returns("train", "none", TRUE, anomalies, NoReport, "", "none")
    /\ UNCHANGED <<scaler, autoencoder, reconstruction_threshold, historyVars, trainCalls,
                   madeBy, used, detect_pc, detect_loc, arg, processes, again, scored, ui>>

\* The statement about to run raises: except Exception, return False.
TrainRaise ==
    /\ train_pc \in FaultPoints \ {"none"}
    /\ train_pc' = "idle"
    /\ train_rows' = <<>>
    /\ Returns("train", train_pc, FALSE, anomalies, NoReport, "", "none")
    /\ UNCHANGED <<detectorVars, historyVars, ghostVars, detect_pc, detect_loc,
                   arg, processes, again, scored, ui>>

DetectKeeps ==
    UNCHANGED <<detectorVars, historyVars, trainCalls, madeBy, completed, train_pc, train_rows,
               ui>>

\* The guard and the extraction loop.
DetectCall ==
    /\ detect_pc = "idle"
    /\ \E input \in Inputs :
          /\ arg' = input
          /\ processes' = input
          /\ IF NotTrained(Det) \/ input = <<>>
             THEN /\ Returns("detect", "none", FALSE, <<>>, NoReport, "", "none")
                  /\ UNCHANGED detect_pc
             ELSE /\ detect_pc' = "scale"
                  /\ UNCHANGED <<op, outcome, retBool, anomalies, report, reason, raised>>
    /\ again' = FALSE
    /\ scored' = FALSE
    /\ used' = NoOne
    /\ UNCHANGED detect_loc
    /\ DetectKeeps

\* scaled_data = self.scaler.transform(current_data)
DetectScale ==
    /\ detect_pc = "scale"
    /\ detect_loc' = [detect_loc EXCEPT !.sc = scaler]
    /\ used' = [used EXCEPT !.scaler = madeBy.scaler]
    /\ detect_pc' = "predict"
    /\ UNCHANGED callVars
    /\ DetectKeeps

\* reconstructed = self.autoencoder.predict(scaled_data), and the errors.
DetectPredict ==
    /\ detect_pc = "predict"
    /\ detect_loc' = [detect_loc EXCEPT
                        !.errs = reconstruction_error(detect_loc.sc, autoencoder,
                                                      SnapshotRows(arg))]
    /\ used' = [used EXCEPT !.model = madeBy.model]
    /\ detect_pc' = "compare"
    /\ UNCHANGED callVars
    /\ DetectKeeps

\* The loop comparing each error with self.reconstruction_threshold; return.
DetectCompare ==
    /\ detect_pc = "compare"
    /\ LET after == AnnotateFlagged(arg, detect_loc.errs, reconstruction_threshold)
       IN  /\ processes' = after
           /\ Returns("detect", "none", FALSE,
                      CollectFlagged(after, detect_loc.errs, reconstruction_threshold, 1),
                      NoReport, "", "none")
    /\ scored' = TRUE
    /\ used' = [used EXCEPT !.threshold = madeBy.threshold]
    /\ detect_pc' = "idle"
    /\ detect_loc' = NoLocals
    /\ UNCHANGED <<arg, again>>
    /\ DetectKeeps

NextSteps ==
    \/ UpdateHistory
    \/ TrainCall
    \/ TrainScaler
    \/ TrainBuild
    \/ TrainFit
    \/ TrainPredict
    \/ TrainPercentile
    \/ TrainFinish
    \/ TrainRaise
    \/ DetectCall
    \/ DetectScale
    \/ DetectPredict
    \/ DetectCompare

SpecSteps == Init /\ [][NextSteps]_vars

\* ------------------------------------ the monitor window's Detect button
\* ProcessMonitorUI.check_anomalies (process_monitor_ui.py), the handler of
\* the button's clicked signal. It runs on the GUI thread from the click to
\* its return, and it is the only code of the window that touches the
\* detector, whose history therefore holds collected snapshots only. The
\* window builds its detector with the default history_size of 100; here it
\* ranges over 1..MaxHistorySize with snapshots scaled down alike, so that
\* clicks with too little data and clicks with enough both occur.
NeedsTraining_Always(d) == TRUE

\* if not self.anomaly_detector.is_trained:
NeedsTraining(d) == ~d.is_trained

NeedMoreData == "Need more data to train model"

Found == "Found anomalous processes. Report saved"

ErrorDetecting == "Error detecting anomalies"

ScanCalls == <<"collect_process_metrics", "detect_anomalies", "generate_report">>

\* The handler returns at line 260: nothing is detected or reported.
ClickReturns(calls, out) ==
    /\ Returns("click", out, FALSE, <<>>, NoReport, "", "none")
    /\ arg' = <<>>
    /\ processes' = <<>>
    /\ again' = FALSE
    /\ scored' = FALSE
    /\ used' = NoOne
    /\ ui' = [calls |-> calls, status |-> NeedMoreData]

\* Lines 262-273 on the detector d the handler has by then: collect, detect,
\* report, write the report file (which the file system may refuse: the
\* except of line 275 then sets the error status).
ClickScans(d, by, history, calls, out, ret) ==
    \E input \in Inputs, saved \in BOOLEAN :
      \E r \in {detect_anomalies(d, input)} :
        /\ Returns("click", out, ret, r.anomalies, generate_report(history, r.anomalies),
                   "", "none")
        /\ arg' = input
        /\ processes' = r.processes
        /\ again' = FALSE
        /\ scored' = r.scored
        /\ used' = IF r.scored THEN by ELSE NoOne
        /\ ui' = [calls |-> calls \o ScanCalls,
                  status |-> IF saved THEN Found ELSE ErrorDetecting]

\* One click: update_history, train_model while untrained, then the scan.
CheckAnomalies ==
    /\ nAppends < MaxAppends
    /\ UNCHANGED <<history_size, stepVars>>
    /\ nAppends' = nAppends + 1
    /\ \E metrics \in Snapshots :
         LET history == deque_append(process_history, metrics, history_size)
         IN  /\ process_history' = history
             /\ arrivals' = deque_append(arrivals, <<nAppends + 1, metrics>>, history_size)
             /\ IF ~NeedsTraining(Det)
                THEN /\ ClickScans(Det, madeBy, history, <<"update_history">>, "skipped", FALSE)
                     /\ UNCHANGED <<detectorVars, trainCalls, madeBy, completed>>
                ELSE LET data == prepare_training_data(history)
                         calls == <<"update_history", "train_model">>
                     IN  IF InsufficientData(data, history_size)
                         THEN /\ ClickReturns(calls, "insufficient")
                              /\ UNCHANGED <<detectorVars, trainCalls, madeBy, completed>>
                         ELSE \E fault \in FaultsOn(data.rows) :
                              \E w0 \in InitialWeights(fault), w1 \in FittedWeights(fault) :
                              \E d \in {TrainBody(Det, data.rows, fault, w0, w1)} :
                              \E by \in {MadeByAfter(madeBy, trainCalls + 1, fault)} :
                                /\ scaler' = d.scaler
                                /\ autoencoder' = d.autoencoder
                                /\ reconstruction_threshold' = d.reconstruction_threshold
                                /\ is_trained' = d.is_trained
                                /\ trainCalls' = trainCalls + 1
                                /\ madeBy' = by
                                /\ IF fault = "none"
                                   THEN /\ completed' = completed \cup {trainCalls + 1}
                                        /\ ClickScans(d, by, history, calls, "none", TRUE)
                                   ELSE /\ completed' = completed
                                        /\ ClickReturns(calls, fault)

NextUI == CheckAnomalies

SpecUI == Init /\ [][NextUI]_vars

\* ================================================================= claims
Min(a, b) == IF a < b THEN a ELSE b

RECURSIVE CorpusSize(_)
CorpusSize(history) ==
    IF history = <<>> THEN 0 ELSE Len(Head(history)) + CorpusSize(Tail(history))

\* C1: after n update_history calls the history holds exactly the last
\* min(n, H) snapshots in arrival order, so never more than H.
C1_HistoryIsLastSnapshots ==
    LET len == Len(process_history)
    IN  /\ len = Min(nAppends, history_size)
        /\ len <= history_size
        /\ Len(arrivals) = len
        /\ \A i \in 1..len :
              /\ arrivals[i][1] = nAppends - len + i
              /\ arrivals[i][2] = process_history[i]

C1_Witness ==
    /\ history_size >= 2
    /\ nAppends > history_size
    /\ Len(process_history) = history_size
    /\ process_history[1] # process_history[2]

\* C2: a train_model call whose try block raises returns False and leaves
\* scaler, model, threshold and is_trained exactly as they were.
C2_FailedTrainingKeepsState ==
    [][(op' = "train" /\ outcome' \in FaultPoints \ {"none"})
        => (retBool' = FALSE /\ UNCHANGED detectorVars)]_vars

\* C3: train_model on a corpus of fewer than H rows (an empty history
\* included) returns False and changes neither the detector's fields nor
\* the history.
C3_InsufficientDataKeepsState ==
    [][(op' = "train" /\ CorpusSize(process_history) < history_size)
        => (retBool' = FALSE /\ UNCHANGED <<detectorVars, process_history>>)]_vars

C3_Witness ==
    /\ op = "train"
    /\ outcome = "insufficient"
    /\ is_trained
    /\ process_history # <<>>
    /\ CorpusSize(process_history) >= 1

\* The indices of the records of `input` whose error is over the threshold.
OverThreshold(input) ==
    {i \in 1..Len(input) :
        100 * RowError(scaler, autoencoder, Features(input[i]), 1) > reconstruction_threshold}

\* The k-th smallest member of a set of indices.
Kth(idx, k) == CHOOSE i \in idx : Cardinality({j \in idx : j < i}) = k - 1

\* C6: on a Trained detector detect_anomalies returns exactly the records
\* whose reconstruction error is strictly over the threshold, in input order.
C6_ReturnsExactlyRecordsOverThreshold ==
    (op = "detect" /\ is_trained) =>
        LET idx == OverThreshold(arg)
        IN  /\ Len(anomalies) = Cardinality(idx)
            /\ \A k \in 1..Len(anomalies) :
                  /\ anomalies[k] = processes[Kth(idx, k)]
                  /\ anomalies[k].pid = arg[Kth(idx, k)].pid
                  /\ Features(anomalies[k]) = Features(arg[Kth(idx, k)])

C6_Witness ==
    /\ op = "detect"
    /\ is_trained
    /\ Len(arg) = 2
    /\ OverThreshold(arg) = {2}
    /\ 100 * RowError(scaler, autoencoder, Features(arg[1]), 1) = reconstruction_threshold

\* C9: is_trained turns true only with a train_model call that returns True,
\* and no operation turns it false again.
C9_TrainedFlagMonotone ==
    [][/\ is_trained => is_trained'
       /\ (~is_trained /\ is_trained') => (op' = "train" /\ retBool' = TRUE)]_vars

C9_Witness ==
    /\ op = "train"
    /\ is_trained
    /\ retBool = FALSE
    /\ outcome = "fit"

\* The record without its annotation.
Measured(proc) == [k \in (DOMAIN proc) \ {"anomaly_reason"} |-> proc[k]]

\* C10: detect_anomalies leaves scaler, model and threshold alone and only
\* adds anomaly_reason to records of its input, so a second call on the same
\* list returns what the first did.
C10_DetectTwiceSameOutput ==
    [][op' = "detect" =>
        /\ UNCHANGED detectorVars
        /\ Len(processes') = Len(arg')
        /\ \A i \in 1..Len(arg') : Measured(processes'[i]) = Measured(arg'[i])
        /\ again' => anomalies' = anomalies]_vars

C10_Witness ==
    /\ op = "detect"
    /\ again
    /\ Len(anomalies) = 2

\* C4: whatever the interleaving, the scaler, model and threshold a
\* detect_anomalies call scores with were all set by one train_model call,
\* and that call returned True.
C4_DetectUsesOneTraining ==
    (op = "detect" /\ scored) =>
        /\ used.scaler = used.model
        /\ used.model = used.threshold
        /\ used.scaler \in completed

\* C5: detect_anomalies on an Untrained detector returns [] whatever the
\* input, raises nothing, annotates no record and changes no field.
C5_UntrainedDetectReturnsEmpty ==
    [][(op' = "detect" /\ ~is_trained) =>
        /\ anomalies' = <<>>
        /\ raised' = "none"
        /\ processes' = arg'
        /\ UNCHANGED <<detectorVars, historyVars>>]_vars

C5_Witness ==
    /\ op = "detect"
    /\ ~is_trained
    /\ autoencoder.exists
    /\ Len(arg) = 2
    /\ HasAllFields(arg[1])
    /\ ~HasAllFields(arg[2])

\* C7: neither train_model nor detect_anomalies lets an exception through to
\* its caller, whatever the history and the input hold, records without one
\* of the five measurement keys included.
C7_NoExceptionEscapes ==
    op \in {"train", "detect"} => raised = "none"

\* The text of rule i if it triggers on the record, with the separator when
\* an earlier rule triggered too.
RuleKeys == <<"cpu_percent", "memory_percent", "num_connections", "num_threads", "num_files">>

RuleLimits == <<80, 80, 50, 100, 100>>

RuleTexts == <<"High CPU usage", "High memory usage", "Unusual network activity",
               "High thread count", "Many open files">>

Triggers(proc, i) == proc[RuleKeys[i]] > RuleLimits[i]

Segment(proc, i) ==
    IF ~Triggers(proc, i) THEN ""
    ELSE (IF \E j \in 1..(i - 1) : Triggers(proc, j) THEN ", " ELSE "") \o RuleTexts[i]

\* C8: the reason is the texts of the triggered rules (strict limits) in the
\* fixed order, joined by ", ", and "Unusual behavior pattern" when none
\* triggers; it is never empty.
C8_ReasonListsTriggeredRules ==
    op = "reason" =>
        /\ reason # ""
        /\ reason = IF \A i \in 1..5 : ~Triggers(arg[1], i)
                    THEN "Unusual behavior pattern"
                    ELSE Segment(arg[1], 1) \o Segment(arg[1], 2) \o Segment(arg[1], 3)
                         \o Segment(arg[1], 4) \o Segment(arg[1], 5)

C8_Witness ==
    /\ op = "reason"
    /\ arg[1].cpu_percent = 81 /\ arg[1].memory_percent = 81 /\ arg[1].num_connections = 51
    /\ arg[1].num_threads = 100 /\ arg[1].num_files = 100
    /\ reason = "High CPU usage, High memory usage, Unusual network activity"

\* Whether the last click called the method named.
Called(method) == \E i \in DOMAIN ui.calls : ui.calls[i] = method

TimesCalled(method) == Cardinality({i \in DOMAIN ui.calls : ui.calls[i] = method})

\* C11: every click on the Detect button first appends exactly one snapshot;
\* it calls train_model only while is_trained is false, and reaches
\* detect_anomalies and generate_report only with is_trained true; so at most
\* one train_model call of a session returns True and the trained scaler,
\* model and threshold are never replaced afterwards.
C11_ClickTrainsOnlyWhileUntrained ==
    [][op' = "click" =>
        /\ nAppends' = nAppends + 1
        /\ Len(process_history') = Min(nAppends', history_size)
        /\ arrivals'[Len(arrivals')][1] = nAppends'
        /\ Head(ui'.calls) = "update_history"
        /\ TimesCalled("update_history")' = 1
        /\ Called("train_model")' => ~is_trained
        /\ (Called("detect_anomalies")' \/ Called("generate_report")') => is_trained'
        /\ retBool' => (Called("train_model")' /\ ~is_trained /\ is_trained')
        /\ is_trained => UNCHANGED <<detectorVars, trainCalls, completed>>
        /\ Cardinality(completed') <= 1]_vars

C11_Witness ==
    /\ op = "click"
    /\ nAppends = 3
    /\ is_trained
    /\ trainCalls = 2
    /\ completed = {2}
    /\ ui.calls = <<"update_history">> \o ScanCalls
    /\ ui.status = Found

====
